---- MODULE Spec2Model ----
(***************************************************************************)
(* Model of the Pokedex container component (src/App.tsx, kept here as     *)
(* src/unnamed/part_000): the five useState cells, the two effects, the    *)
(* search handler and the asynchronous hydrations they start.              *)
(*                                                                         *)
(* Rendering model: React 18 automatic batching.  All setState calls made  *)
(* in one synchronous stretch of code (an event handler up to its first    *)
(* await, or the continuation after an await) are committed together, then *)
(* the effects whose dependencies changed run, and their own setState      *)
(* calls are committed in turn.  Each action below is one such stretch     *)
(* together with the effect cascade it causes.                             *)
(*                                                                         *)
(* Remote API: a fixed three-entry catalogue with lowercase names.  The    *)
(* name and type list a detail URL returns are those of its index entry.   *)
(* Every fetch answers "ok", "notok" (response.ok false) or "reject"       *)
(* (network failure: the fetch promise rejects).                           *)
(*                                                                         *)
(* One creature's hydration (fetchPokemonDetail) reads and writes no       *)
(* component state between its first fetch and its return, so its fetches  *)
(* are folded into one step that draws the outcome of each of them.        *)
(***************************************************************************)
EXTENDS Integers, Sequences, FiniteSets, Bags, TLC

VARIABLES
  allPokemonUrls,   \* useState line 32: the index, a sequence of [name, url]
  pokemonDetails,   \* useState line 33: the hydrated records
  searchTerm,       \* useState line 34: a sequence of characters
  loading,          \* useState line 35
  error,            \* useState line 36
  indexFetch,       \* TRUE while fetchAllUrls (line 110) awaits its fetch
  ops,              \* hydrations in flight, a bag: promises are not ordered
  last,             \* history: the step just taken, the hydration it finished
                    \* and the position in a batch of the creature that
                    \* finished last
  lastInput,        \* history: branch taken by the latest handleSearchChange, and
                    \* whether it started one hydration while others were in flight
  allOk,            \* history: no fetch has failed so far
  hydIn,            \* input of one isolated fetchPokemonDetail call
  hydOut            \* its result

vars == <<allPokemonUrls, pokemonDetails, searchTerm, loading, error,
          indexFetch, ops, last, lastInput, allOk, hydIn, hydOut>>

----------------------------------------------------------------------------
(* Bounds and program constants *)

MaxOps == 2              \* hydrations (batches or single look-ups) in flight
MaxTypes == 2            \* types per creature in the isolated hydration

POKEMON_DISPLAY_LIMIT == 2   \* 300 in the source, scaled to the 3-entry catalogue

NoError == "null"
IndexError == "Error al obtener la lista completa de Pokemon."
BatchError == "Error al cargar los Pokemon iniciales."
Null == [null |-> TRUE]
Rejected == [rejected |-> TRUE]   \* a promise that rejected instead of resolving
NoOp == [kind |-> "none"]
Outcomes == {"ok", "notok", "reject"}

----------------------------------------------------------------------------
(* The remote API *)

ApiIndex ==
  << [name |-> <<"a", "b">>, url |-> 1],
     [name |-> <<"a", "c">>, url |-> 2],
     [name |-> <<"b", "c">>, url |-> 3] >>

TypeNames == {"grass", "bug", "water"}

DoubleDamageFrom(t) ==
  CASE t = "grass" -> <<"fire", "ice">>
    [] t = "bug"   -> <<"fire", "rock">>
    [] OTHER       -> <<"grass", "ice">>

ApiTypes(url) ==
  CASE url = 1 -> <<"grass", "bug">>
    [] url = 2 -> <<"grass">>
    [] OTHER   -> <<"bug">>

ApiDetail(url) ==
  [name |-> ApiIndex[url].name, id |-> url, types |-> ApiTypes(url)]

\* what the user can put in the search box
Inputs == { <<>>, <<"B">>, <<"b", "c">>, <<"d">> }

----------------------------------------------------------------------------
(* Strings *)

ToLowerChar(c) ==
  CASE c = "A" -> "a" [] c = "B" -> "b" [] c = "C" -> "c" [] c = "D" -> "d"
    [] OTHER -> c

toLowerCase(s) == [i \in 1..Len(s) |-> ToLowerChar(s[i])]

\* String.prototype.includes
includes(s, q) ==
  \E i \in 0..(Len(s) - Len(q)) : SubSeq(s, i + 1, i + Len(q)) = q

\* Array.prototype.includes
arrayIncludes(a, x) == \E i \in 1..Len(a) : a[i] = x

----------------------------------------------------------------------------
(* fetchPokemonDetail, lines 39-76 *)

\* lines 59-61 with a missing includes test
pushAlways(weaknesses, name) == Append(weaknesses, name)

\* lines 59-61
pushIfAbsent(weaknesses, name) ==
  IF ~arrayIncludes(weaknesses, name) THEN Append(weaknesses, name)
  ELSE weaknesses

\* lines 58-62: damageRelations.forEach
RECURSIVE forEachRelation(_, _, _)
forEachRelation(weaknesses, relations, i) ==
  IF i > Len(relations) THEN weaknesses
  ELSE forEachRelation(pushIfAbsent(weaknesses, relations[i]), relations, i + 1)

\* lines 49-63: the loop over detailData.types; thrown = the fetch rejected
RECURSIVE typeLoop(_, _, _, _)
typeLoop(types, typeOut, i, weaknesses) ==
  IF i > Len(types) THEN [thrown |-> FALSE, weaknesses |-> weaknesses]
  ELSE IF typeOut[i] = "reject" THEN [thrown |-> TRUE, weaknesses |-> weaknesses]
  ELSE IF typeOut[i] = "notok" THEN typeLoop(types, typeOut, i + 1, weaknesses)
  ELSE typeLoop(types, typeOut, i + 1,
                forEachRelation(weaknesses, DoubleDamageFrom(types[i]), 1))

\* lines 41-71: the try block; Rejected: an awaited fetch threw
tryBlock(detail, detailOut, typeOut) ==
  IF detailOut = "reject" THEN Rejected
  ELSE IF detailOut = "notok" THEN Null
  ELSE LET r == typeLoop(detail.types, typeOut, 1, <<>>) IN
       IF r.thrown THEN Rejected
       ELSE [name |-> detail.name, id |-> detail.id, types |-> detail.types,
             weaknesses |-> r.weaknesses]

\* lines 39-76 without the catch clause: what the try block throws rejects
\* the promise
fetchPokemonDetailNoCatch(detail, detailOut, typeOut) ==
  tryBlock(detail, detailOut, typeOut)

\* lines 39-76: the catch clause (72-75) turns whatever was thrown into null
fetchPokemonDetail(detail, detailOut, typeOut) ==
  LET r == tryBlock(detail, detailOut, typeOut) IN
  IF r = Rejected THEN Null ELSE r

\* the record of a creature when none of its fetches fails
HydrateOk(url) ==
  fetchPokemonDetail(ApiDetail(url), "ok",
                     [i \in 1..Len(ApiTypes(url)) |-> "ok"])

----------------------------------------------------------------------------
(* Component state as one value, and hydrations in flight *)

St ==
  [urls |-> allPokemonUrls, details |-> pokemonDetails, term |-> searchTerm,
   loading |-> loading, error |-> error, indexFetch |-> indexFetch,
   ops |-> ops]

Pending == [st |-> "pending", res |-> Null]

Min(a, b) == IF a < b THEN a ELSE b

\* line 92 without the slice
initialBatchUrlsAll(urls) == urls

\* line 92: allPokemonUrls.slice(0, POKEMON_DISPLAY_LIMIT)
initialBatchUrls(urls) == SubSeq(urls, 1, Min(POKEMON_DISPLAY_LIMIT, Len(urls)))

\* line 95: initialBatchUrls.map(...), one fetchPokemonDetail(urlInfo.url)
\* promise per entry, in the order of the entries
batchOf(entries) ==
  [kind |-> "batch",
   urls |-> [i \in 1..Len(entries) |-> entries[i].url],
   tasks |-> [i \in 1..Len(entries) |-> Pending]]

\* lines 92-95: the batch over the window
NewBatch(urls) == batchOf(initialBatchUrls(urls))

\* line 174: the single fetchPokemonDetail promise of a search miss
NewSingle(entry) ==
  [kind |-> "single", urls |-> <<entry.url>>, tasks |-> <<Pending>>]

AllDone(tasks) == \A k \in 1..Len(tasks) : tasks[k].st # "pending"

\* the values of a batch gathered in the order in which the promises settle
resolveInCompletionOrder(op, k, task) ==
  [op EXCEPT
     !.urls = SubSeq(@, 1, k - 1) \o SubSeq(@, k + 1, Len(@)) \o <<@[k]>>,
     !.tasks = SubSeq(@, 1, k - 1) \o SubSeq(@, k + 1, Len(@)) \o <<task>>]

\* line 96: Promise.all keeps the value of the k-th promise at position k
resolveAt(op, k, task) == [op EXCEPT !.tasks[k] = task]

\* one more, one fewer hydration in flight
Start(bag, op) == bag (+) SetToBag({op})

Finish(bag, op) == bag (-) SetToBag({op})

\* line 96: (await Promise.all(...)).filter(p => p !== null)
RECURSIVE filterNotNull(_, _)
filterNotNull(tasks, k) ==
  IF k > Len(tasks) THEN <<>>
  ELSE IF tasks[k].res = Null THEN filterNotNull(tasks, k + 1)
  ELSE <<tasks[k].res>> \o filterNotNull(tasks, k + 1)

----------------------------------------------------------------------------
(* fetchInitialDisplayData, lines 79-106 *)

\* lines 79-95: the synchronous part, up to the await of Promise.all
fetchInitialDisplayData(s) ==
  IF Len(s.urls) = 0
  THEN [s EXCEPT !.error = NoError, !.loading = FALSE]
  ELSE [s EXCEPT !.error = NoError, !.loading = TRUE,
                 !.ops = Start(@, NewBatch(s.urls))]

\* lines 96-97 with the batch abandoned when one creature failed
loadedDetailsAbort(tasks) ==
  IF \E k \in 1..Len(tasks) : tasks[k].res = Null THEN <<>>
  ELSE filterNotNull(tasks, 1)

\* lines 96-97: the joined result of the batch
loadedDetails(tasks) == filterNotNull(tasks, 1)

\* lines 99-105: Promise.all rejected; the catch and the finally clause
batchCatch(s) == [s EXCEPT !.error = BatchError, !.loading = FALSE]

\* lines 96-103 with the write skipped once the user has typed a query
batchContinuationCancel(s, op) ==
  IF s.term # <<>> THEN [s EXCEPT !.loading = FALSE]
  ELSE [s EXCEPT !.details = loadedDetails(op.tasks), !.loading = FALSE]

\* lines 96-105: after the barrier
batchContinuation(s, op) ==
  IF \E k \in 1..Len(op.tasks) : op.tasks[k].res = Rejected THEN batchCatch(s)
  ELSE [s EXCEPT !.details = loadedDetails(op.tasks), !.loading = FALSE]

\* a creature of a batch finished, written out at once instead of at the barrier
taskSettledEager(s, op, k, task) ==
  [s EXCEPT !.ops = Start(Finish(@, op), [op EXCEPT !.tasks[k] = task]),
            !.details = filterNotNull([op.tasks EXCEPT ![k] = task], 1)]

\* line 95-96: one promise of a batch settles; the barrier still waits unless
\* the promise rejected, which rejects Promise.all at once
taskSettled(s, op, k, task) ==
  IF task.res = Rejected THEN batchCatch([s EXCEPT !.ops = Finish(@, op)])
  ELSE [s EXCEPT !.ops = Start(Finish(@, op), resolveAt(op, k, task))]

----------------------------------------------------------------------------
(* The effects, lines 109-143 *)

\* lines 109-133 with the guard of line 130 testing the error only
indexEffectUnguarded(old, new) ==
  /\ Len(old.urls) # Len(new.urls) \/ old.error # new.error
  /\ new.error = NoError

\* lines 109-133: the index effect starts fetchAllUrls
indexEffect(old, new) ==
  /\ Len(old.urls) # Len(new.urls) \/ old.error # new.error
  /\ Len(new.urls) = 0
  /\ new.error = NoError

\* dependencies of the display effect, line 143; refChanged: allPokemonUrls
\* was replaced, which gives fetchInitialDisplayData a new identity (line 106)
displayDeps(old, new, refChanged) ==
  \/ Len(old.urls) # Len(new.urls)
  \/ Len(old.details) # Len(new.details)
  \/ old.loading # new.loading
  \/ refChanged

\* one commit: both effects run against the state just rendered
effectsOnce(old, new, refChanged) ==
  LET a == [new EXCEPT !.indexFetch = @ \/ indexEffect(old, new)] IN
  IF ~displayDeps(old, new, refChanged) THEN a
  ELSE IF Len(new.urls) > 0 /\ Len(new.details) = 0 /\ new.loading
       THEN [fetchInitialDisplayData(new) EXCEPT !.indexFetch = a.indexFetch]
  ELSE IF Len(new.urls) > 0 /\ Len(new.details) > 0 /\ new.loading
       THEN [a EXCEPT !.loading = FALSE]
  ELSE a

\* the commit of an update and of the updates its effects make
render(old, new, refChanged) ==
  LET r == effectsOnce(old, new, refChanged) IN effectsOnce(new, r, FALSE)

----------------------------------------------------------------------------
(* handleSearchChange, lines 146-191, and the rendered list, lines 195-205 *)

\* line 170: index of the first entry whose name contains value, 0 if none
find(urls, value) ==
  IF \E i \in 1..Len(urls) : includes(urls[i].name, value)
  THEN CHOOSE i \in 1..Len(urls) :
         /\ includes(urls[i].name, value)
         /\ \A j \in 1..(i - 1) : ~includes(urls[j].name, value)
  ELSE 0

\* line 160-163
foundInDisplay(details, value) ==
  \E i \in 1..Len(details) : includes(details[i].name, value)

searchBranch(s, raw) ==
  LET value == toLowerCase(raw) IN
  IF value = <<>> THEN "reset"
  ELSE IF foundInDisplay(s.details, value) THEN "hit"
  ELSE IF find(s.urls, value) # 0 THEN "found"
  ELSE "notfound"

\* lines 163-165 with the window hydrated again as in the empty-query branch
searchHitRefetch(s) == fetchInitialDisplayData(s)

\* lines 163-165: nothing beyond setSearchTerm
searchHit(s) == s

\* lines 185-189 without the final setLoading(false)
searchNotFoundStuck(s) == [s EXCEPT !.loading = TRUE, !.details = <<>>]

\* lines 169, 185-189
searchNotFound(s) == [s EXCEPT !.details = <<>>, !.loading = FALSE]

\* lines 146-175: the synchronous part of the handler
handleSearchChange(s, raw) ==
  LET value == toLowerCase(raw)
      s1 == [s EXCEPT !.term = value]
      foundPokemonUrl == find(s.urls, value)
  IN IF value = <<>>
     THEN fetchInitialDisplayData([s1 EXCEPT !.loading = TRUE])
     ELSE IF foundInDisplay(s.details, value) THEN searchHit(s1)
     ELSE IF foundPokemonUrl # 0
          THEN [s1 EXCEPT !.loading = TRUE,
                          !.ops = Start(@, NewSingle(s.urls[foundPokemonUrl]))]
     ELSE searchNotFound(s1)

\* lines 174-189: after the await of the single hydration; a rejection is
\* rethrown by the await and the handler ends there
singleContinuation(s, detail) ==
  IF detail = Rejected THEN s
  ELSE IF detail # Null
  THEN [s EXCEPT !.details = <<detail>>, !.loading = FALSE]
  ELSE [s EXCEPT !.details = <<>>, !.loading = FALSE]

\* lines 195-205 without the filter
filteredPokemonAll(details, term) == details

\* lines 195-205
filteredPokemon(details, term) ==
  IF term = <<>> THEN details
  ELSE SelectSeq(details, LAMBDA p : includes(toLowerCase(p.name), term))

\* lines 236 and 257: the "no results" messages are rendered
noResultsShown ==
  ~loading /\ Len(filteredPokemon(pokemonDetails, searchTerm)) = 0
           /\ searchTerm # <<>>

----------------------------------------------------------------------------
(* The component as a state machine *)

Set(n) ==
  /\ allPokemonUrls' = n.urls
  /\ pokemonDetails' = n.details
  /\ searchTerm' = n.term
  /\ loading' = n.loading
  /\ error' = n.error
  /\ indexFetch' = n.indexFetch
  /\ ops' = n.ops

NoCall == [types |-> <<>>, detailOut |-> "ok", typeOut |-> <<>>]
NotCalled == [called |-> FALSE, res |-> Null]

\* mount: both effects have run once; the index effect started fetchAllUrls
Init ==
  /\ allPokemonUrls = <<>>
  /\ pokemonDetails = <<>>
  /\ searchTerm = <<>>
  /\ loading = TRUE
  /\ error = NoError
  /\ indexFetch = TRUE
  /\ ops = EmptyBag
  /\ last = [act |-> "mount", op |-> NoOp, k |-> 0]
  /\ lastInput = [branch |-> "none", superseding |-> FALSE]
  /\ allOk = TRUE
  /\ hydIn = NoCall
  /\ hydOut = NotCalled

\* lines 114-127: the index fetch settles
fetchAllUrls(s, out) ==
  LET s0 == [s EXCEPT !.indexFetch = FALSE] IN
  IF out = "ok" THEN render(s, [s0 EXCEPT !.urls = ApiIndex], TRUE)
  ELSE IF out = "empty" THEN render(s, [s0 EXCEPT !.urls = <<>>], TRUE)
  ELSE render(s, [s0 EXCEPT !.error = IndexError, !.loading = FALSE], FALSE)

IndexDone(out) ==
  /\ indexFetch
  /\ \E n \in {fetchAllUrls(St, out)} :
       /\ BagCardinality(n.ops) <= MaxOps
       /\ Set(n)
  /\ last' = [act |-> "indexDone", op |-> NoOp, k |-> 0]
  /\ allOk' = (allOk /\ out \in {"ok", "empty"})
  /\ UNCHANGED <<lastInput, hydIn, hydOut>>

\* outcome of fetchPokemonDetail(url), with the detail fetch's status;
\* ok: none of its fetches failed
Settle(url, detailOut, typeOut) ==
  [st |-> detailOut,
   res |-> fetchPokemonDetail(ApiDetail(url), detailOut, typeOut),
   ok |-> (detailOut = "ok" /\ \A j \in 1..Len(typeOut) : typeOut[j] = "ok")]

\* every way the hydration of a URL can end, over the outcomes of its
\* fetches, tabulated by detail URL
SettlementTable ==
  [u \in 1..Len(ApiIndex) |->
     { Settle(u, d, t) :
         d \in Outcomes, t \in [1..Len(ApiTypes(u)) -> Outcomes] }]

Settlements(url) == SettlementTable[url]

TaskOf(x) == [st |-> x.st, res |-> x.res]

OthersDone(tasks, k) ==
  \A j \in 1..Len(tasks) : j # k => tasks[j].st # "pending"

\* a creature of a batch finishes while others of the batch are in flight
TaskDone(op, k) ==
  /\ op.kind = "batch"
  /\ op.tasks[k].st = "pending"
  /\ ~OthersDone(op.tasks, k)
  /\ \E x \in Settlements(op.urls[k]) :
       /\ \E n \in {render(St, taskSettled(St, op, k, TaskOf(x)), FALSE)} :
            Set(n)
       /\ allOk' = (allOk /\ x.ok)
  /\ last' = [act |-> "taskDone", op |-> NoOp, k |-> 0]
  /\ UNCHANGED <<lastInput, hydIn, hydOut>>

\* the last creature of a batch finishes: Promise.all resolves, lines 96-103
BatchDone(op, k) ==
  /\ op.kind = "batch"
  /\ op.tasks[k].st = "pending"
  /\ OthersDone(op.tasks, k)
  /\ \E x \in Settlements(op.urls[k]) :
       \E done \in {resolveAt(op, k, TaskOf(x))} :
       \E s0 \in {[St EXCEPT !.ops = Finish(ops, op)]} :
       \E n \in {render(St, batchContinuation(s0, done), FALSE)} :
          /\ BagCardinality(n.ops) <= MaxOps
          /\ Set(n)
          /\ last' = [act |-> "batchDone", op |-> done, k |-> k]
          /\ allOk' = (allOk /\ x.ok)
  /\ UNCHANGED <<lastInput, hydIn, hydOut>>

\* the hydration of a search miss finishes, lines 174-189
SingleDone(op) ==
  /\ op.kind = "single"
  /\ \E x \in Settlements(op.urls[1]) :
       \E done \in {[op EXCEPT !.tasks[1] = TaskOf(x)]} :
       \E s0 \in {[St EXCEPT !.ops = Finish(ops, op)]} :
       \E n \in {render(St, singleContinuation(s0, x.res), FALSE)} :
          /\ BagCardinality(n.ops) <= MaxOps
          /\ Set(n)
          /\ last' = [act |-> "singleDone", op |-> done, k |-> 0]
          /\ allOk' = (allOk /\ x.ok)
  /\ UNCHANGED <<lastInput, hydIn, hydOut>>

\* onChange of the search box
Search(raw) ==
  /\ ~(raw = <<>> /\ searchTerm = <<>>)
  /\ \E h \in {handleSearchChange(St, raw)} :
       \E n \in {render(St, h, FALSE)} :
         /\ BagCardinality(n.ops) <= MaxOps
         /\ Set(n)
         /\ lastInput' =
              [branch |-> searchBranch(St, raw),
               superseding |-> /\ BagCardinality(ops) > 0
                               /\ BagCardinality(n.ops) = BagCardinality(ops) + 1]
  /\ last' = [act |-> "search", op |-> NoOp, k |-> 0]
  /\ UNCHANGED <<allOk, hydIn, hydOut>>

Next ==
  \/ \E out \in {"ok", "empty", "notok", "reject"} : IndexDone(out)
  \/ \E op \in BagToSet(ops) : \E k \in DOMAIN op.tasks : TaskDone(op, k)
  \/ \E op \in BagToSet(ops) : \E k \in DOMAIN op.tasks : BatchDone(op, k)
  \/ \E op \in BagToSet(ops) : SingleDone(op)
  \/ \E raw \in Inputs : Search(raw)

Spec == Init /\ [][Next]_vars

----------------------------------------------------------------------------
(* fetchPokemonDetail in isolation: any type list, any outcome of each fetch *)

TypeLists == UNION { [1..n -> TypeNames] : n \in 0..MaxTypes }

HydInputs ==
  UNION { { [types |-> ts, detailOut |-> d, typeOut |-> t] :
              d \in Outcomes, t \in [1..Len(ts) -> Outcomes] } :
          ts \in TypeLists }

HydInit ==
  /\ allPokemonUrls = <<>>
  /\ pokemonDetails = <<>>
  /\ searchTerm = <<>>
  /\ loading = TRUE
  /\ error = NoError
  /\ indexFetch = TRUE
  /\ ops = EmptyBag
  /\ last = [act |-> "mount", op |-> NoOp, k |-> 0]
  /\ lastInput = [branch |-> "none", superseding |-> FALSE]
  /\ allOk = TRUE
  /\ hydIn \in HydInputs
  /\ hydOut = NotCalled

HydCall ==
  /\ ~hydOut.called
  /\ hydOut' =
       [called |-> TRUE,
        res |-> fetchPokemonDetail(
                  [name |-> <<"a">>, id |-> 1, types |-> hydIn.types],
                  hydIn.detailOut, hydIn.typeOut)]
  /\ UNCHANGED <<allPokemonUrls, pokemonDetails, searchTerm, loading, error,
                 indexFetch, ops, last, lastInput, allOk, hydIn>>

HydNext == HydCall

HydSpec == HydInit /\ [][HydNext]_vars

----------------------------------------------------------------------------
(* One batch in isolation, lines 92-105: the promises of a window of three    *)
(* entries settle in any order with any outcome of each fetch.  The window is *)
(* 300 entries in the source; the component above runs with a window of two,  *)
(* too short for a dropped entry to sit between two kept ones.                *)

BatchInit ==
  /\ allPokemonUrls = ApiIndex
  /\ pokemonDetails = <<>>
  /\ searchTerm = <<>>
  /\ loading = TRUE
  /\ error = NoError
  /\ indexFetch = FALSE
  /\ ops = Start(EmptyBag, batchOf(ApiIndex))
  /\ last = [act |-> "indexDone", op |-> NoOp, k |-> 0]
  /\ lastInput = [branch |-> "none", superseding |-> FALSE]
  /\ allOk = TRUE
  /\ hydIn = NoCall
  /\ hydOut = NotCalled

BatchNext ==
  \/ \E op \in BagToSet(ops) : \E k \in DOMAIN op.tasks : TaskDone(op, k)
  \/ \E op \in BagToSet(ops) : \E k \in DOMAIN op.tasks : BatchDone(op, k)

BatchSpec == BatchInit /\ [][BatchNext]_vars

----------------------------------------------------------------------------
(* Properties *)

SetOf(seq) == { seq[i] : i \in 1..Len(seq) }

NoDup(seq) == \A i, j \in 1..Len(seq) : seq[i] = seq[j] => i = j

visible == filteredPokemon(pokemonDetails, searchTerm)

quiescent == BagToSet(ops) = {} /\ ~indexFetch

\* C1: every record of pokemonDetails has a weaknesses list in which no type
\* name occurs twice.
WeaknessesNoDuplicates ==
  \A i \in 1..Len(pokemonDetails) : NoDup(pokemonDetails[i].weaknesses)

\* a record of a two-type creature whose types both list "fire"
WeaknessesOverlapWitness ==
  \E i \in 1..Len(pokemonDetails) :
    /\ Len(pokemonDetails[i].types) = 2
    /\ pokemonDetails[i].weaknesses = <<"fire", "ice", "rock">>

\* C2: when the detail fetch succeeds and the relation fetch of some type
\* fails (non-success status or network failure), fetchPokemonDetail returns
\* a record whose weaknesses are the union of the double_damage_from names of
\* the types whose relation fetch succeeded.
TypeFailureKeepsRecord ==
  ( /\ hydOut.called
    /\ hydIn.detailOut = "ok"
    /\ \E j \in 1..Len(hydIn.types) : hydIn.typeOut[j] # "ok" )
  => /\ hydOut.res # Null
     /\ SetOf(hydOut.res.weaknesses) =
          UNION { SetOf(DoubleDamageFrom(hydIn.types[j])) :
                    j \in { m \in 1..Len(hydIn.types) : hydIn.typeOut[m] = "ok" } }

\* C3: when a batch completes, an entry whose detail fetch had a non-success
\* status is absent from pokemonDetails, every entry that was hydrated is
\* present, and nothing else is.
BatchKeepsSuccesses ==
  last.act = "batchDone" =>
    /\ \A k \in 1..Len(last.op.tasks) :
         /\ last.op.tasks[k].st = "notok" =>
              ~\E i \in 1..Len(pokemonDetails) :
                 pokemonDetails[i].name = ApiDetail(last.op.urls[k]).name
         /\ last.op.tasks[k].res # Null =>
              \E i \in 1..Len(pokemonDetails) :
                 pokemonDetails[i] = last.op.tasks[k].res
    /\ Len(pokemonDetails) =
         Cardinality({ k \in 1..Len(last.op.tasks) : last.op.tasks[k].res # Null })

\* a batch completed with one detail fetch refused and the other entry kept
BatchPartialWitness ==
  /\ last.act = "batchDone"
  /\ \E k \in 1..Len(last.op.tasks) : last.op.tasks[k].st = "notok"
  /\ Len(pokemonDetails) = 1

\* C4: once the index load has failed, the error message stays set and no
\* index listing fetch is issued again.
IndexFailureIsFatal ==
  [][error # NoError => (error' # NoError /\ ~indexFetch')]_vars

\* C5: after a search that missed the hydrated records and matched an index
\* entry, once nothing is in flight and every fetch succeeded, the visible set
\* is the single record of the first index entry whose name contains the query.
SearchMissShowsSingleMatch ==
  (lastInput.branch = "found" /\ allOk /\ quiescent) =>
    visible =
      << HydrateOk(allPokemonUrls[find(allPokemonUrls, searchTerm)].url) >>

\* C6: after the query is cleared, once nothing is in flight and every fetch
\* succeeded, pokemonDetails is the hydration of the first
\* POKEMON_DISPLAY_LIMIT index entries.
ClearRestoresWindow ==
  (lastInput.branch = "reset" /\ allOk /\ quiescent /\ Len(allPokemonUrls) > 0) =>
    pokemonDetails =
      [k \in 1..Min(POKEMON_DISPLAY_LIMIT, Len(allPokemonUrls)) |->
         HydrateOk(allPokemonUrls[k].url)]

\* C7: after a query found neither among the hydrated records nor in the
\* index, loading is off, the visible set is empty and the "no results"
\* message is rendered, also after hydrations started earlier have completed.
NoMatchShowsNoResults ==
  lastInput.branch = "notfound" =>
    /\ ~loading
    /\ visible = <<>>
    /\ noResultsShown

\* an earlier batch completed after the fruitless search and filled pokemonDetails
NoMatchAfterBatchWitness ==
  /\ lastInput.branch = "notfound"
  /\ last.act = "batchDone"
  /\ Len(pokemonDetails) > 0

\* C8: a search step whose non-empty query matches a hydrated record changes
\* nothing but searchTerm and starts no fetch, and the visible set becomes the
\* hydrated records whose name contains the query.
SearchHitOnlyFilters ==
  [][ ( /\ last'.act = "search"
        /\ searchTerm' # <<>>
        /\ \E i \in 1..Len(pokemonDetails) :
             includes(pokemonDetails[i].name, searchTerm') )
      => /\ UNCHANGED <<allPokemonUrls, pokemonDetails, loading, error,
                        indexFetch, ops>>
         /\ filteredPokemon(pokemonDetails', searchTerm') =
              SelectSeq(pokemonDetails, LAMBDA p : includes(p.name, searchTerm'))
    ]_vars

\* a hit that shows some but not all of the hydrated records
SearchHitWitness ==
  /\ last.act = "search"
  /\ lastInput.branch = "hit"
  /\ Len(visible) > 0
  /\ Len(visible) < Len(pokemonDetails)

\* C11: no fetch failure propagates as a thrown error: no hydration, whatever
\* the outcome of its fetches, ends rejected; error is never the batch's error
\* message; and the step that finishes a search-miss hydration leaves loading
\* off.
NoFailurePropagates ==
  /\ \A op \in BagToSet(ops) \cup ({last.op} \ {NoOp}) :
       \A k \in 1..Len(op.tasks) : op.tasks[k].res # Rejected
  /\ error # BatchError
  /\ last.act = "singleDone" => ~loading

\* a search-miss hydration whose detail fetch met a network failure has
\* finished with null and cleared loading
RejectedFetchWitness ==
  /\ last.act = "singleDone"
  /\ last.op.tasks[1].st = "reject"
  /\ last.op.tasks[1].res = Null
  /\ ~loading
  /\ error = NoError

\* C12: a search step whose query misses the hydrated records and matches an
\* index entry starts exactly one hydration, that of the first matching entry,
\* and no batch, whatever the hydrated set was before.
SearchMissStartsOnlySingle ==
  [][ (last'.act = "search" /\ lastInput'.branch = "found")
      => ops' = Start(ops, NewSingle(
                  allPokemonUrls[find(allPokemonUrls, searchTerm')]))
    ]_vars

\* C13: once allPokemonUrls is non-empty, no step changes it and no step
\* leaves an index listing fetch in flight.
IndexImmutableOnceLoaded ==
  [][Len(allPokemonUrls) > 0
       => (allPokemonUrls' = allPokemonUrls /\ ~indexFetch')]_vars

\* the index is still the loaded one after a failed fetch, a cleared query and
\* the batch that clearing started
IndexKeptWitness ==
  /\ allPokemonUrls = ApiIndex
  /\ ~indexFetch
  /\ ~allOk
  /\ lastInput.branch = "reset"
  /\ last.act = "batchDone"

\* C14: pokemonDetails holds at most POKEMON_DISPLAY_LIMIT records, each with
\* the name and id of an index entry; a batch in flight hydrates the first
\* POKEMON_DISPLAY_LIMIT index entries and nothing else; the step that finishes
\* a search-miss hydration leaves at most one record.
HydratedSetBounded ==
  /\ Len(pokemonDetails) <= POKEMON_DISPLAY_LIMIT
  /\ \A i \in 1..Len(pokemonDetails) :
       \E j \in 1..Len(allPokemonUrls) :
         /\ pokemonDetails[i].name = allPokemonUrls[j].name
         /\ pokemonDetails[i].id = allPokemonUrls[j].url
  /\ \A op \in BagToSet(ops) :
       op.kind = "batch" =>
         op.urls = [k \in 1..Min(POKEMON_DISPLAY_LIMIT, Len(allPokemonUrls)) |->
                      allPokemonUrls[k].url]
  /\ last.act = "singleDone" => Len(pokemonDetails) <= 1

\* a batch over an index longer than the window has filled the window
WindowFullWitness ==
  /\ last.act = "batchDone"
  /\ Len(allPokemonUrls) > POKEMON_DISPLAY_LIMIT
  /\ Len(pokemonDetails) = POKEMON_DISPLAY_LIMIT

\* C15: whenever no fetch is in flight (neither the index listing fetch nor a
\* hydration), loading is off.
LoadingClearsWhenIdle == quiescent => ~loading

\* C16: whenever the index is loaded and non-empty, the query is empty,
\* nothing is in flight and no fetch has failed, pokemonDetails is the
\* hydration of the first POKEMON_DISPLAY_LIMIT index entries.
IdleEmptyQueryShowsWindow ==
  (Len(allPokemonUrls) > 0 /\ searchTerm = <<>> /\ quiescent /\ allOk) =>
    pokemonDetails =
      [k \in 1..Min(POKEMON_DISPLAY_LIMIT, Len(allPokemonUrls)) |->
         HydrateOk(allPokemonUrls[k].url)]

\* position in the index of the entry a record was hydrated from
IndexOf(p) ==
  CHOOSE n \in 1..Len(allPokemonUrls) : allPokemonUrls[n].url = p.id

\* C17: after a batch has completed, the records of pokemonDetails stand in
\* the order of their entries in the index, whatever order the creatures
\* finished in and whichever entries were dropped.
BatchKeepsIndexOrder ==
  last.act = "batchDone" =>
    \A i, j \in 1..Len(pokemonDetails) :
      i < j => IndexOf(pokemonDetails[i]) < IndexOf(pokemonDetails[j])

\* the first entry finished last, the middle one was dropped for a refused
\* detail fetch, and the two others are written
OutOfOrderCompletionWitness ==
  /\ last.act = "batchDone"
  /\ last.k = 1
  /\ last.op.tasks[2].st = "notok"
  /\ Len(pokemonDetails) = 2
  /\ pokemonDetails[1].id = 1
  /\ pokemonDetails[2].id = 3

\* the records a finished hydration hands over
ResultOf(op) ==
  LET kept == SelectSeq(op.tasks, LAMBDA t : t.res # Null) IN
  [k \in 1..Len(kept) |-> kept[k].res]

\* C9: every hydration that completes writes its result to pokemonDetails,
\* superseded or not, so the hydrated set is that of the last one to complete.
NoCancellation ==
  last.act \in {"batchDone", "singleDone"} => pokemonDetails = ResultOf(last.op)

\* a batch superseded by a search completed after that search's own hydration
SupersededWinsWitness ==
  /\ last.act = "batchDone"
  /\ lastInput.branch = "found"
  /\ lastInput.superseding
  /\ quiescent
  /\ Len(pokemonDetails) = 2

\* C10: a step in which one creature of a batch finishes while others of the
\* batch are in flight leaves pokemonDetails unchanged; the batch writes only
\* at the barrier.
BatchWritesAtBarrier ==
  [][last'.act = "taskDone" => pokemonDetails' = pokemonDetails]_vars

\* one creature of a batch is hydrated, another is in flight, nothing written
BarrierWaitingWitness ==
  /\ last.act = "taskDone"
  /\ pokemonDetails = <<>>
  /\ \E op \in BagToSet(ops) :
       /\ \E k \in 1..Len(op.tasks) : op.tasks[k].res # Null
       /\ \E k \in 1..Len(op.tasks) : op.tasks[k].st = "pending"

====
